---- MODULE Spec2Model ----
(***************************************************************************)
(* State-machine model of the GachaFiFHE contract (src/unnamed/part_001).  *)
(*                                                                         *)
(* Every external function of the contract is one action.  A function body *)
(* is an operator from the storage before the call to a result record      *)
(*   [st |-> storage after the call, err |-> "ok" or the error raised,     *)
(*    ev |-> events emitted],                                              *)
(* written statement by statement in the order of the source, so that a    *)
(* storage write that precedes a revert is visible in the body and undone  *)
(* by Revert.  Transactions are serialized and atomic (EVM semantics).     *)
(*                                                                         *)
(* The FHE library is external.  A ciphertext handle is modelled by the    *)
(* expression it names: the library derives a handle deterministically     *)
(* from the operation and its operand handles, and every accumulator of    *)
(* this contract is a left chain  add(...add(asEuint32(0), asEuint32(c1)), *)
(* ..., asEuint32(cn)),  represented by the sequence <<0, c1, ..., cn>>.   *)
(* The plaintext behind a handle is the sum of that sequence modulo the    *)
(* encrypted integer width.                                                *)
(***************************************************************************)
EXTENDS Integers, Sequences, FiniteSets, TLC

VARIABLES
    storage,         \* the contract's storage (all state variables, lines 39-53)
    now,             \* block.timestamp
    counterRequest,  \* the decryption oracle's next request id
    oracleRequests,  \* the oracle's record of requested handle lists, by request id
    contributed      \* history: per batch and participant, the sum of the counts
                     \* of the accepted submitGachaDraw calls (as integers)

vars == <<storage, now, counterRequest, oracleRequests, contributed>>

---------------------------------------------------------------------------
(* Bounds of the model *)

MaxBatch == 2        \* successful openBatch calls explored
MaxRequests == 2     \* decryption requests the oracle accepts
MaxSubmits == 2      \* accepted submitGachaDraw calls explored (all batches)
MaxTicks == 1        \* advances of block.timestamp explored
MaxOps == 4          \* openBatch + submitGachaDraw + requests + clock advances explored
UintBits == 6        \* width standing in for uint256 (timestamps, cooldown)
EuintBits == 2       \* width standing in for uint32 / euint32

(* Program constants *)

DefaultCooldown == 10

---------------------------------------------------------------------------
(* Value domains *)

ZeroAddress == "0x0"
Deployer == "deployer"
Callers == {Deployer, "alice", "bob"}
Address == Callers \cup {ZeroAddress}
Submitters == {"alice", "bob"}

UintMax == 2^UintBits - 1
EuintMod == 2^EuintBits
EuintMax == EuintMod - 1

TickStep == DefaultCooldown
DeployTime == 2 * DefaultCooldown
MaxTime == DeployTime + MaxTicks * TickStep

BatchIds == 0..(MaxBatch + 1)
RequestIds == 0..MaxRequests
DrawCounts == {0, 1, EuintMax}
CooldownInputs == {0, DefaultCooldown, UintMax}

RECURSIVE SumSeq(_)
SumSeq(q) == IF q = <<>> THEN 0 ELSE Head(q) + SumSeq(Tail(q))

---------------------------------------------------------------------------
(* The FHE library: handles *)

UninitHandle == [init |-> FALSE, adds |-> <<>>]

asEuint32(v) == [init |-> TRUE, adds |-> <<v % EuintMod>>]

isInitialized(h) == h.init

add(a, b) == [init |-> TRUE, adds |-> a.adds \o b.adds]

toBytes32(h) == h

\* the plaintext a correct decryption of handle h yields
Decrypt(h) == SumSeq(h.adds) % EuintMod

---------------------------------------------------------------------------
(* Transaction outcomes *)

Ok(st, ev) == [st |-> st, err |-> "ok", ev |-> ev]

\* mutant: the writes made before the revert persist
Revert_KeepWrites(pre, cur, e) == [st |-> cur, err |-> e, ev |-> <<>>]

\* A revert discards every storage write the call made: `pre` is the storage
\* before the call, `cur` the storage at the revert.
Revert(pre, cur, e) == [st |-> pre, err |-> e, ev |-> <<>>]

\* checked uint256 addition (Solidity >= 0.8): TRUE when a + b overflows
AddOverflows(a, b) == a + b > UintMax

---------------------------------------------------------------------------
(* The contract *)

NoContext == [batchId |-> 0, stateHash |-> <<>>, processed |-> FALSE]

constructor(sender) ==
    [owner |-> sender,
     isProvider |-> [a \in Address |-> a = sender],
     paused |-> FALSE,
     cooldownSeconds |-> DefaultCooldown,
     lastSubmissionTime |-> [a \in Address |-> 0],
     lastDecryptionRequestTime |-> [a \in Address |-> 0],
     currentBatchId |-> 0,
     batchOpen |-> FALSE,
     encryptedTotalPrizePool |-> [b \in BatchIds |-> UninitHandle],
     encryptedDrawCount |-> [b \in BatchIds |-> UninitHandle],
     encryptedPlayerDrawCounts |-> [b \in BatchIds |-> [a \in Address |-> UninitHandle]],
     decryptionContexts |-> [r \in RequestIds |-> NoContext]]

\* mutant: providers pass the owner check too
onlyOwner_OrProvider(s, sender) == sender = s.owner \/ s.isProvider[sender]

\* mutant: the owner always passes the provider check
onlyProvider_OrOwner(s, sender) == s.isProvider[sender] \/ sender = s.owner

\* modifiers: TRUE when the modifier lets the call through
onlyOwner(s, sender) == sender = s.owner

onlyProvider(s, sender) == s.isProvider[sender]

whenNotPaused(s) == ~s.paused

addProvider(s, sender, _provider) ==
    IF ~onlyOwner(s, sender) THEN Revert(s, s, "NotOwner")
    ELSE IF _provider = ZeroAddress THEN Revert(s, s, "InvalidParameter")
    ELSE Ok([s EXCEPT !.isProvider[_provider] = TRUE],
            <<[name |-> "ProviderAdded", args |-> <<_provider>>]>>)

removeProvider(s, sender, _provider) ==
    IF ~onlyOwner(s, sender) THEN Revert(s, s, "NotOwner")
    ELSE IF _provider = ZeroAddress THEN Revert(s, s, "InvalidParameter")
    ELSE Ok([s EXCEPT !.isProvider[_provider] = FALSE],
            <<[name |-> "ProviderRemoved", args |-> <<_provider>>]>>)

\* mutant: the pause flag can only be written while not paused
setPaused_WhenNotPaused(s, sender, _paused) ==
    IF ~onlyOwner(s, sender) THEN Revert(s, s, "NotOwner")
    ELSE IF ~whenNotPaused(s) THEN Revert(s, s, "Paused")
    ELSE Ok([s EXCEPT !.paused = _paused],
            <<[name |-> "PausedSet", args |-> <<_paused>>]>>)

setPaused(s, sender, _paused) ==
    IF ~onlyOwner(s, sender) THEN Revert(s, s, "NotOwner")
    ELSE Ok([s EXCEPT !.paused = _paused],
            <<[name |-> "PausedSet", args |-> <<_paused>>]>>)

setCooldownSeconds(s, sender, _cooldownSeconds) ==
    IF ~onlyOwner(s, sender) THEN Revert(s, s, "NotOwner")
    ELSE IF _cooldownSeconds = 0 THEN Revert(s, s, "InvalidParameter")
    ELSE Ok([s EXCEPT !.cooldownSeconds = _cooldownSeconds],
            <<[name |-> "CooldownSecondsSet", args |-> <<_cooldownSeconds>>]>>)

\* mutant: only the prize pool of the new batch is seeded
openBatch_SeedsPoolOnly(s, sender) ==
    IF ~onlyProvider(s, sender) THEN Revert(s, s, "NotProvider")
    ELSE IF ~whenNotPaused(s) THEN Revert(s, s, "Paused")
    ELSE IF s.batchOpen THEN Revert(s, s, "BatchNotClosed")
    ELSE LET id == s.currentBatchId + 1
         IN  Ok([s EXCEPT !.currentBatchId = id, !.batchOpen = TRUE,
                          !.encryptedTotalPrizePool[id] = asEuint32(0)],
                <<[name |-> "BatchOpened", args |-> <<id>>]>>)

\* mutant: the aggregates of the new batch are not seeded
openBatch_NoSeed(s, sender) ==
    IF ~onlyProvider(s, sender) THEN Revert(s, s, "NotProvider")
    ELSE IF ~whenNotPaused(s) THEN Revert(s, s, "Paused")
    ELSE IF s.batchOpen THEN Revert(s, s, "BatchNotClosed")
    ELSE LET id == s.currentBatchId + 1
         IN  Ok([s EXCEPT !.currentBatchId = id, !.batchOpen = TRUE],
                <<[name |-> "BatchOpened", args |-> <<id>>]>>)

\* mutant: the open-batch guard is missing
openBatch_NoGuard(s, sender) ==
    IF ~onlyProvider(s, sender) THEN Revert(s, s, "NotProvider")
    ELSE IF ~whenNotPaused(s) THEN Revert(s, s, "Paused")
    ELSE LET id == s.currentBatchId + 1
             s1 == [s EXCEPT !.currentBatchId = id, !.batchOpen = TRUE]
             s2 == [s1 EXCEPT !.encryptedTotalPrizePool[id] = asEuint32(0)]
             s3 == [s2 EXCEPT !.encryptedDrawCount[id] = asEuint32(0)]
         IN  Ok(s3, <<[name |-> "BatchOpened", args |-> <<id>>]>>)

openBatch(s, sender) ==
    IF ~onlyProvider(s, sender) THEN Revert(s, s, "NotProvider")
    ELSE IF ~whenNotPaused(s) THEN Revert(s, s, "Paused")
    ELSE IF s.batchOpen THEN Revert(s, s, "BatchNotClosed")
    ELSE LET id == s.currentBatchId + 1
             s1 == [s EXCEPT !.currentBatchId = id, !.batchOpen = TRUE]
             s2 == [s1 EXCEPT !.encryptedTotalPrizePool[id] = asEuint32(0)]
             s3 == [s2 EXCEPT !.encryptedDrawCount[id] = asEuint32(0)]
         IN  Ok(s3, <<[name |-> "BatchOpened", args |-> <<id>>]>>)

\* mutant: closing a batch resets its draw count
closeBatch_ClearsBatch(s, sender) ==
    IF ~onlyProvider(s, sender) THEN Revert(s, s, "NotProvider")
    ELSE IF ~whenNotPaused(s) THEN Revert(s, s, "Paused")
    ELSE IF ~s.batchOpen THEN Revert(s, s, "BatchClosed")
    ELSE Ok([s EXCEPT !.batchOpen = FALSE,
                      !.encryptedDrawCount[s.currentBatchId] = asEuint32(0)],
            <<[name |-> "BatchClosed", args |-> <<s.currentBatchId>>]>>)

\* mutant: closing without an open batch silently succeeds
closeBatch_NoGuard(s, sender) ==
    IF ~onlyProvider(s, sender) THEN Revert(s, s, "NotProvider")
    ELSE IF ~whenNotPaused(s) THEN Revert(s, s, "Paused")
    ELSE Ok([s EXCEPT !.batchOpen = FALSE],
            <<[name |-> "BatchClosed", args |-> <<s.currentBatchId>>]>>)

closeBatch(s, sender) ==
    IF ~onlyProvider(s, sender) THEN Revert(s, s, "NotProvider")
    ELSE IF ~whenNotPaused(s) THEN Revert(s, s, "Paused")
    ELSE IF ~s.batchOpen THEN Revert(s, s, "BatchClosed")
    ELSE Ok([s EXCEPT !.batchOpen = FALSE],
            <<[name |-> "BatchClosed", args |-> <<s.currentBatchId>>]>>)

\* mutant: the count is accumulated into the prize pool as well
submitGachaDraw_AddsToPool(s, sender, _drawCount, timestamp) ==
    IF ~whenNotPaused(s) THEN Revert(s, s, "Paused")
    ELSE IF ~s.batchOpen THEN Revert(s, s, "BatchClosed")
    ELSE IF AddOverflows(s.lastSubmissionTime[sender], s.cooldownSeconds)
         THEN Revert(s, s, "Panic")
    ELSE IF timestamp < s.lastSubmissionTime[sender] + s.cooldownSeconds
         THEN Revert(s, s, "CooldownActive")
    ELSE LET id == s.currentBatchId
             batchCount == IF isInitialized(s.encryptedDrawCount[id])
                           THEN s.encryptedDrawCount[id] ELSE asEuint32(0)
             playerCount == IF isInitialized(s.encryptedPlayerDrawCounts[id][sender])
                            THEN s.encryptedPlayerDrawCounts[id][sender]
                            ELSE asEuint32(0)
         IN  Ok([s EXCEPT !.lastSubmissionTime[sender] = timestamp,
                          !.encryptedPlayerDrawCounts[id][sender] =
                              add(playerCount, asEuint32(_drawCount)),
                          !.encryptedDrawCount[id] =
                              add(batchCount, asEuint32(_drawCount)),
                          !.encryptedTotalPrizePool[id] =
                              add(s.encryptedTotalPrizePool[id], asEuint32(_drawCount))],
                <<[name |-> "GachaSubmitted", args |-> <<sender, id, _drawCount>>]>>)

\* mutant: the open-batch requirement is missing
submitGachaDraw_NoOpenCheck(s, sender, _drawCount, timestamp) ==
    IF ~whenNotPaused(s) THEN Revert(s, s, "Paused")
    ELSE IF AddOverflows(s.lastSubmissionTime[sender], s.cooldownSeconds)
         THEN Revert(s, s, "Panic")
    ELSE IF timestamp < s.lastSubmissionTime[sender] + s.cooldownSeconds
         THEN Revert(s, s, "CooldownActive")
    ELSE LET id == s.currentBatchId
             batchCount == IF isInitialized(s.encryptedDrawCount[id])
                           THEN s.encryptedDrawCount[id] ELSE asEuint32(0)
             playerCount == IF isInitialized(s.encryptedPlayerDrawCounts[id][sender])
                            THEN s.encryptedPlayerDrawCounts[id][sender]
                            ELSE asEuint32(0)
         IN  Ok([s EXCEPT !.lastSubmissionTime[sender] = timestamp,
                          !.encryptedPlayerDrawCounts[id][sender] =
                              add(playerCount, asEuint32(_drawCount)),
                          !.encryptedDrawCount[id] =
                              add(batchCount, asEuint32(_drawCount))],
                <<[name |-> "GachaSubmitted", args |-> <<sender, id, _drawCount>>]>>)

\* mutant: the batch total is accumulated from the player's counter
submitGachaDraw_TotalFromPlayer(s, sender, _drawCount, timestamp) ==
    IF ~whenNotPaused(s) THEN Revert(s, s, "Paused")
    ELSE IF ~s.batchOpen THEN Revert(s, s, "BatchClosed")
    ELSE IF AddOverflows(s.lastSubmissionTime[sender], s.cooldownSeconds)
         THEN Revert(s, s, "Panic")
    ELSE IF timestamp < s.lastSubmissionTime[sender] + s.cooldownSeconds
         THEN Revert(s, s, "CooldownActive")
    ELSE LET id == s.currentBatchId
             playerCount == IF isInitialized(s.encryptedPlayerDrawCounts[id][sender])
                            THEN s.encryptedPlayerDrawCounts[id][sender]
                            ELSE asEuint32(0)
             new == add(playerCount, asEuint32(_drawCount))
         IN  Ok([s EXCEPT !.lastSubmissionTime[sender] = timestamp,
                          !.encryptedPlayerDrawCounts[id][sender] = new,
                          !.encryptedDrawCount[id] = new],
                <<[name |-> "GachaSubmitted", args |-> <<sender, id, _drawCount>>]>>)

submitGachaDraw(s, sender, _drawCount, timestamp) ==
    IF ~whenNotPaused(s) THEN Revert(s, s, "Paused")
    ELSE IF ~s.batchOpen THEN Revert(s, s, "BatchClosed")
    ELSE IF AddOverflows(s.lastSubmissionTime[sender], s.cooldownSeconds)
         THEN Revert(s, s, "Panic")
    ELSE IF timestamp < s.lastSubmissionTime[sender] + s.cooldownSeconds
         THEN Revert(s, s, "CooldownActive")
    ELSE LET id == s.currentBatchId
             s1 == [s EXCEPT !.lastSubmissionTime[sender] = timestamp]
             \* lazy initialization of the two accumulators read
             batchCount == IF isInitialized(s1.encryptedDrawCount[id])
                           THEN s1.encryptedDrawCount[id] ELSE asEuint32(0)
             s2 == [s1 EXCEPT !.encryptedDrawCount[id] = batchCount]
             playerCount == IF isInitialized(s2.encryptedPlayerDrawCounts[id][sender])
                            THEN s2.encryptedPlayerDrawCounts[id][sender]
                            ELSE asEuint32(0)
             s3 == [s2 EXCEPT !.encryptedPlayerDrawCounts[id][sender] = playerCount]
             newPlayerDrawCount == add(playerCount, asEuint32(_drawCount))
             s4 == [s3 EXCEPT !.encryptedPlayerDrawCounts[id][sender] = newPlayerDrawCount]
             newBatchDrawCount == add(batchCount, asEuint32(_drawCount))
             s5 == [s4 EXCEPT !.encryptedDrawCount[id] = newBatchDrawCount]
         IN  Ok(s5, <<[name |-> "GachaSubmitted",
                        args |-> <<sender, id, _drawCount>>]>>)

\* the ordered handle list [totalPrizePool, totalDraws] of a batch
ciphertexts(s, batchId) ==
    <<toBytes32(s.encryptedTotalPrizePool[batchId]),
      toBytes32(s.encryptedDrawCount[batchId])>>

\* mutant: the digest covers the first handle only
_hashCiphertexts_FirstOnly(cts) == <<(<<cts[1]>>), "this">>

\* keccak256(abi.encode(cts, address(this))): collision-free digest
_hashCiphertexts(cts) == <<cts, "this">>

\* mutant: the initialization requirement is not enforced
_requireInitialized_Skip(e) == TRUE

_requireInitialized(e) == isInitialized(e)

\* mutant: the request targets the batch before the current one
requestBatchDecryption_PreviousBatch(s, sender, timestamp, requestId) ==
    IF ~onlyProvider(s, sender) THEN Revert(s, s, "NotProvider")
    ELSE IF ~whenNotPaused(s) THEN Revert(s, s, "Paused")
    ELSE IF s.batchOpen THEN Revert(s, s, "BatchNotClosed")
    ELSE IF AddOverflows(s.lastDecryptionRequestTime[sender], s.cooldownSeconds)
         THEN Revert(s, s, "Panic")
    ELSE IF timestamp < s.lastDecryptionRequestTime[sender] + s.cooldownSeconds
         THEN Revert(s, s, "CooldownActive")
    ELSE LET s1 == [s EXCEPT !.lastDecryptionRequestTime[sender] = timestamp]
             id == IF s1.currentBatchId > 1 THEN s1.currentBatchId - 1
                   ELSE s1.currentBatchId
         IN  IF ~_requireInitialized(s1.encryptedTotalPrizePool[id])
                 THEN Revert(s, s1, "NotInitialized")
             ELSE IF ~_requireInitialized(s1.encryptedDrawCount[id])
                 THEN Revert(s, s1, "NotInitialized")
             ELSE Ok([s1 EXCEPT !.decryptionContexts[requestId] =
                         [batchId |-> id,
                          stateHash |-> _hashCiphertexts(ciphertexts(s1, id)),
                          processed |-> FALSE]],
                     <<[name |-> "DecryptionRequested", args |-> <<requestId, id>>]>>)

\* mutant: the closed-batch requirement is missing
requestBatchDecryption_NoClosedCheck(s, sender, timestamp, requestId) ==
    IF ~onlyProvider(s, sender) THEN Revert(s, s, "NotProvider")
    ELSE IF ~whenNotPaused(s) THEN Revert(s, s, "Paused")
    ELSE IF AddOverflows(s.lastDecryptionRequestTime[sender], s.cooldownSeconds)
         THEN Revert(s, s, "Panic")
    ELSE IF timestamp < s.lastDecryptionRequestTime[sender] + s.cooldownSeconds
         THEN Revert(s, s, "CooldownActive")
    ELSE LET s1 == [s EXCEPT !.lastDecryptionRequestTime[sender] = timestamp]
             id == s1.currentBatchId
         IN  IF ~_requireInitialized(s1.encryptedTotalPrizePool[id])
                 THEN Revert(s, s1, "NotInitialized")
             ELSE IF ~_requireInitialized(s1.encryptedDrawCount[id])
                 THEN Revert(s, s1, "NotInitialized")
             ELSE Ok([s1 EXCEPT !.decryptionContexts[requestId] =
                         [batchId |-> id,
                          stateHash |-> _hashCiphertexts(ciphertexts(s1, id)),
                          processed |-> FALSE]],
                     <<[name |-> "DecryptionRequested", args |-> <<requestId, id>>]>>)

\* mutant: one reveal cooldown shared by all providers (kept under the owner)
requestBatchDecryption_SharedCooldown(s, sender, timestamp, requestId) ==
    IF ~onlyProvider(s, sender) THEN Revert(s, s, "NotProvider")
    ELSE IF ~whenNotPaused(s) THEN Revert(s, s, "Paused")
    ELSE IF s.batchOpen THEN Revert(s, s, "BatchNotClosed")
    ELSE IF AddOverflows(s.lastDecryptionRequestTime[s.owner], s.cooldownSeconds)
         THEN Revert(s, s, "Panic")
    ELSE IF timestamp < s.lastDecryptionRequestTime[s.owner] + s.cooldownSeconds
         THEN Revert(s, s, "CooldownActive")
    ELSE LET s1 == [s EXCEPT !.lastDecryptionRequestTime[s.owner] = timestamp]
             id == s1.currentBatchId
         IN  IF ~_requireInitialized(s1.encryptedTotalPrizePool[id])
                 THEN Revert(s, s1, "NotInitialized")
             ELSE IF ~_requireInitialized(s1.encryptedDrawCount[id])
                 THEN Revert(s, s1, "NotInitialized")
             ELSE Ok([s1 EXCEPT !.decryptionContexts[requestId] =
                         [batchId |-> id,
                          stateHash |-> _hashCiphertexts(ciphertexts(s1, id)),
                          processed |-> FALSE]],
                     <<[name |-> "DecryptionRequested", args |-> <<requestId, id>>]>>)

\* mutant: the reveal cooldown is kept in the submission timestamps
requestBatchDecryption_SubmitClock(s, sender, timestamp, requestId) ==
    IF ~onlyProvider(s, sender) THEN Revert(s, s, "NotProvider")
    ELSE IF ~whenNotPaused(s) THEN Revert(s, s, "Paused")
    ELSE IF s.batchOpen THEN Revert(s, s, "BatchNotClosed")
    ELSE IF AddOverflows(s.lastSubmissionTime[sender], s.cooldownSeconds)
         THEN Revert(s, s, "Panic")
    ELSE IF timestamp < s.lastSubmissionTime[sender] + s.cooldownSeconds
         THEN Revert(s, s, "CooldownActive")
    ELSE LET s1 == [s EXCEPT !.lastSubmissionTime[sender] = timestamp]
             id == s1.currentBatchId
         IN  IF ~_requireInitialized(s1.encryptedTotalPrizePool[id])
                 THEN Revert(s, s1, "NotInitialized")
             ELSE IF ~_requireInitialized(s1.encryptedDrawCount[id])
                 THEN Revert(s, s1, "NotInitialized")
             ELSE Ok([s1 EXCEPT !.decryptionContexts[requestId] =
                         [batchId |-> id,
                          stateHash |-> _hashCiphertexts(ciphertexts(s1, id)),
                          processed |-> FALSE]],
                     <<[name |-> "DecryptionRequested", args |-> <<requestId, id>>]>>)

\* requestId is the id FHE.requestDecryption hands out for this call
requestBatchDecryption(s, sender, timestamp, requestId) ==
    IF ~onlyProvider(s, sender) THEN Revert(s, s, "NotProvider")
    ELSE IF ~whenNotPaused(s) THEN Revert(s, s, "Paused")
    ELSE IF s.batchOpen THEN Revert(s, s, "BatchNotClosed")
    ELSE IF AddOverflows(s.lastDecryptionRequestTime[sender], s.cooldownSeconds)
         THEN Revert(s, s, "Panic")
    ELSE IF timestamp < s.lastDecryptionRequestTime[sender] + s.cooldownSeconds
         THEN Revert(s, s, "CooldownActive")
    ELSE LET s1 == [s EXCEPT !.lastDecryptionRequestTime[sender] = timestamp]
             totalPrizePool == s1.encryptedTotalPrizePool[s1.currentBatchId]
             totalDraws == s1.encryptedDrawCount[s1.currentBatchId]
         IN  IF ~_requireInitialized(totalPrizePool)
                 THEN Revert(s, s1, "NotInitialized")
             ELSE IF ~_requireInitialized(totalDraws)
                 THEN Revert(s, s1, "NotInitialized")
             ELSE LET cts == ciphertexts(s1, s1.currentBatchId)
                      stateHash == _hashCiphertexts(cts)
                      s2 == [s1 EXCEPT !.decryptionContexts[requestId] =
                                [batchId |-> s1.currentBatchId,
                                 stateHash |-> stateHash,
                                 processed |-> FALSE]]
                  IN  Ok(s2, <<[name |-> "DecryptionRequested",
                                 args |-> <<requestId, s1.currentBatchId>>]>>)

\* FHE.checkSignatures: the proof is the oracle's signature over exactly
\* this request id and these cleartexts
checkSignatures(requestId, cleartexts, proof) ==
    /\ proof.kms
    /\ proof.requestId = requestId
    /\ proof.cleartexts = cleartexts

\* mutant: the replay gate is missing
myCallback_NoReplayGate(s, sender, requestId, cleartexts, proof) ==
    LET context == s.decryptionContexts[requestId]
        currentTotalPrizePool == s.encryptedTotalPrizePool[context.batchId]
        currentTotalDraws == s.encryptedDrawCount[context.batchId]
    IN  IF ~_requireInitialized(currentTotalPrizePool)
            THEN Revert(s, s, "NotInitialized")
        ELSE IF ~_requireInitialized(currentTotalDraws)
            THEN Revert(s, s, "NotInitialized")
        ELSE IF _hashCiphertexts(ciphertexts(s, context.batchId)) # context.stateHash
            THEN Revert(s, s, "StateMismatch")
        ELSE IF ~checkSignatures(requestId, cleartexts, proof)
            THEN Revert(s, s, "InvalidProof")
        ELSE Ok([s EXCEPT !.decryptionContexts[requestId].processed = TRUE],
                <<[name |-> "DecryptionCompleted",
                   args |-> <<requestId, context.batchId, cleartexts[1]>>]>>)

\* mutant: the proof is verified before the other gates
myCallback_ProofFirst(s, sender, requestId, cleartexts, proof) ==
    LET context == s.decryptionContexts[requestId] IN
    IF ~checkSignatures(requestId, cleartexts, proof)
        THEN Revert(s, s, "InvalidProof")
    ELSE IF context.processed THEN Revert(s, s, "ReplayDetected")
    ELSE IF ~_requireInitialized(s.encryptedTotalPrizePool[context.batchId])
        THEN Revert(s, s, "NotInitialized")
    ELSE IF ~_requireInitialized(s.encryptedDrawCount[context.batchId])
        THEN Revert(s, s, "NotInitialized")
    ELSE IF _hashCiphertexts(ciphertexts(s, context.batchId)) # context.stateHash
        THEN Revert(s, s, "StateMismatch")
    ELSE Ok([s EXCEPT !.decryptionContexts[requestId].processed = TRUE],
            <<[name |-> "DecryptionCompleted",
               args |-> <<requestId, context.batchId, cleartexts[1]>>]>>)

\* mutant: a callback with a bad proof returns early with the context
\* already marked processed
myCallback_ConsumesOnBadProof(s, sender, requestId, cleartexts, proof) ==
    LET context == s.decryptionContexts[requestId] IN
    IF context.processed THEN Revert(s, s, "ReplayDetected")
    ELSE IF ~_requireInitialized(s.encryptedTotalPrizePool[context.batchId])
        THEN Revert(s, s, "NotInitialized")
    ELSE IF ~_requireInitialized(s.encryptedDrawCount[context.batchId])
        THEN Revert(s, s, "NotInitialized")
    ELSE IF _hashCiphertexts(ciphertexts(s, context.batchId)) # context.stateHash
        THEN Revert(s, s, "StateMismatch")
    ELSE IF ~checkSignatures(requestId, cleartexts, proof)
        THEN [st |-> [s EXCEPT !.decryptionContexts[requestId].processed = TRUE],
              err |-> "InvalidProof", ev |-> <<>>]
    ELSE Ok([s EXCEPT !.decryptionContexts[requestId].processed = TRUE],
            <<[name |-> "DecryptionCompleted",
               args |-> <<requestId, context.batchId, cleartexts[1]>>]>>)

\* mutant: the callback is restricted to providers
myCallback_OnlyProvider(s, sender, requestId, cleartexts, proof) ==
    LET context == s.decryptionContexts[requestId] IN
    IF ~onlyProvider(s, sender) THEN Revert(s, s, "NotProvider")
    ELSE IF context.processed THEN Revert(s, s, "ReplayDetected")
    ELSE IF ~_requireInitialized(s.encryptedTotalPrizePool[context.batchId])
        THEN Revert(s, s, "NotInitialized")
    ELSE IF ~_requireInitialized(s.encryptedDrawCount[context.batchId])
        THEN Revert(s, s, "NotInitialized")
    ELSE IF _hashCiphertexts(ciphertexts(s, context.batchId)) # context.stateHash
        THEN Revert(s, s, "StateMismatch")
    ELSE IF ~checkSignatures(requestId, cleartexts, proof)
        THEN Revert(s, s, "InvalidProof")
    ELSE Ok([s EXCEPT !.decryptionContexts[requestId].processed = TRUE],
            <<[name |-> "DecryptionCompleted",
               args |-> <<requestId, context.batchId, cleartexts[1]>>]>>)

\* mutant: the state hash is recomputed over the current batch, not the
\* batch of the context
myCallback_CurrentBatch(s, sender, requestId, cleartexts, proof) ==
    LET context == s.decryptionContexts[requestId] IN
    IF context.processed THEN Revert(s, s, "ReplayDetected")
    ELSE IF ~_requireInitialized(s.encryptedTotalPrizePool[s.currentBatchId])
        THEN Revert(s, s, "NotInitialized")
    ELSE IF ~_requireInitialized(s.encryptedDrawCount[s.currentBatchId])
        THEN Revert(s, s, "NotInitialized")
    ELSE IF _hashCiphertexts(ciphertexts(s, s.currentBatchId)) # context.stateHash
        THEN Revert(s, s, "StateMismatch")
    ELSE IF ~checkSignatures(requestId, cleartexts, proof)
        THEN Revert(s, s, "InvalidProof")
    ELSE Ok([s EXCEPT !.decryptionContexts[requestId].processed = TRUE],
            <<[name |-> "DecryptionCompleted",
               args |-> <<requestId, context.batchId, cleartexts[1]>>]>>)

\* mutant: completing one request completes every request of the same batch
myCallback_MarksBatch(s, sender, requestId, cleartexts, proof) ==
    LET context == s.decryptionContexts[requestId] IN
    IF context.processed THEN Revert(s, s, "ReplayDetected")
    ELSE IF ~_requireInitialized(s.encryptedTotalPrizePool[context.batchId])
        THEN Revert(s, s, "NotInitialized")
    ELSE IF ~_requireInitialized(s.encryptedDrawCount[context.batchId])
        THEN Revert(s, s, "NotInitialized")
    ELSE IF _hashCiphertexts(ciphertexts(s, context.batchId)) # context.stateHash
        THEN Revert(s, s, "StateMismatch")
    ELSE IF ~checkSignatures(requestId, cleartexts, proof)
        THEN Revert(s, s, "InvalidProof")
    ELSE Ok([s EXCEPT !.decryptionContexts =
                [r \in RequestIds |->
                    IF s.decryptionContexts[r].batchId = context.batchId
                    THEN [s.decryptionContexts[r] EXCEPT !.processed = TRUE]
                    ELSE s.decryptionContexts[r]]],
            <<[name |-> "DecryptionCompleted",
               args |-> <<requestId, context.batchId, cleartexts[1]>>]>>)

\* mutant: a completed context is deleted
myCallback_DeleteContext(s, sender, requestId, cleartexts, proof) ==
    LET context == s.decryptionContexts[requestId] IN
    IF context.processed THEN Revert(s, s, "ReplayDetected")
    ELSE IF ~_requireInitialized(s.encryptedTotalPrizePool[context.batchId])
        THEN Revert(s, s, "NotInitialized")
    ELSE IF ~_requireInitialized(s.encryptedDrawCount[context.batchId])
        THEN Revert(s, s, "NotInitialized")
    ELSE IF _hashCiphertexts(ciphertexts(s, context.batchId)) # context.stateHash
        THEN Revert(s, s, "StateMismatch")
    ELSE IF ~checkSignatures(requestId, cleartexts, proof)
        THEN Revert(s, s, "InvalidProof")
    ELSE Ok([s EXCEPT !.decryptionContexts[requestId] = NoContext],
            <<[name |-> "DecryptionCompleted",
               args |-> <<requestId, context.batchId, cleartexts[1]>>]>>)

myCallback(s, sender, requestId, cleartexts, proof) ==
    LET context == s.decryptionContexts[requestId] IN
    IF context.processed THEN Revert(s, s, "ReplayDetected")
    ELSE LET currentTotalPrizePool == s.encryptedTotalPrizePool[context.batchId]
             currentTotalDraws == s.encryptedDrawCount[context.batchId]
         IN  IF ~_requireInitialized(currentTotalPrizePool)
                 THEN Revert(s, s, "NotInitialized")
             ELSE IF ~_requireInitialized(currentTotalDraws)
                 THEN Revert(s, s, "NotInitialized")
             ELSE IF _hashCiphertexts(ciphertexts(s, context.batchId)) # context.stateHash
                 THEN Revert(s, s, "StateMismatch")
             ELSE IF ~checkSignatures(requestId, cleartexts, proof)
                 THEN Revert(s, s, "InvalidProof")
             ELSE LET totalPrizePoolCleartext == cleartexts[1]
                      totalDrawsCleartext == cleartexts[2]
                      s1 == [s EXCEPT !.decryptionContexts[requestId].processed = TRUE]
                  IN  Ok(s1, <<[name |-> "DecryptionCompleted",
                                 args |-> <<requestId, context.batchId,
                                            totalPrizePoolCleartext>>]>>)

---------------------------------------------------------------------------
(* The environment: callers, the clock, the decryption oracle *)

\* what the oracle decrypts for a request: the plaintexts of its handles
DecryptAll(cts) == <<Decrypt(cts[1]), Decrypt(cts[2])>>

Issued == {r \in RequestIds : r < counterRequest}

\* proofs in circulation: the oracle's signature for each issued request,
\* over the true plaintexts, and forgeries (never signed by the oracle)
GenuineProof(r) ==
    [kms |-> TRUE, requestId |-> r, cleartexts |-> DecryptAll(oracleRequests[r])]

ForgedProof(r, c) == [kms |-> FALSE, requestId |-> r, cleartexts |-> c]

\* callback calls <<requestId, cleartexts, proof>> made by the environment:
\* for each issued request the oracle's honest answer, the true cleartexts
\* under a forged proof, and altered cleartexts under the oracle's proof;
\* the oracle's answer to one request presented for any request id; and a
\* forgery for each request id never issued
Altered(c) == <<c[1], (c[2] + 1) % EuintMod>>

CallbackInputs ==
    UNION {{<<r, GenuineProof(r).cleartexts, GenuineProof(r)>>,
            <<r, GenuineProof(r).cleartexts, ForgedProof(r, GenuineProof(r).cleartexts)>>,
            <<r, Altered(GenuineProof(r).cleartexts), GenuineProof(r)>>} : r \in Issued}
        \cup {<<r, GenuineProof(q).cleartexts, GenuineProof(q)>> :
                  r \in RequestIds, q \in Issued}
        \cup {<<r, (<<0, 0>>), ForgedProof(r, <<0, 0>>)>> : r \in RequestIds \ Issued}

\* accepted submissions so far, over all batches
Submits ==
    SumSeq([b \in 1..MaxBatch |->
              IF isInitialized(storage.encryptedDrawCount[b])
              THEN Len(storage.encryptedDrawCount[b].adds) - 1 ELSE 0])

\* additions made to prize-pool accumulators (none by the contract itself)
PoolAdds ==
    SumSeq([b \in 1..MaxBatch |->
              IF isInitialized(storage.encryptedTotalPrizePool[b])
              THEN Len(storage.encryptedTotalPrizePool[b].adds) - 1 ELSE 0])

\* operations counted against MaxOps
Ops == storage.currentBatchId + Submits + PoolAdds + counterRequest
           + ((now - DeployTime) \div TickStep)

\* the transaction's outcome r takes effect; a reverted call leaves the
\* storage as it was
Commit(r) == storage' = r.st

Init ==
    /\ storage = constructor(Deployer)
    /\ now = DeployTime
    /\ counterRequest = 0
    /\ oracleRequests = [r \in RequestIds |-> <<>>]
    /\ contributed = [b \in BatchIds |-> [a \in Address |-> 0]]

Tick ==
    /\ now + TickStep <= MaxTime
    /\ Ops < MaxOps
    /\ now' = now + TickStep
    /\ UNCHANGED <<storage, counterRequest, oracleRequests, contributed>>

AddProvider ==
    \E sender \in Callers, _provider \in {ZeroAddress, "alice"} :
        /\ Commit(addProvider(storage, sender, _provider))
        /\ UNCHANGED <<now, counterRequest, oracleRequests, contributed>>

RemoveProvider ==
    \E sender \in Callers, _provider \in {ZeroAddress, Deployer, "alice"} :
        /\ Commit(removeProvider(storage, sender, _provider))
        /\ UNCHANGED <<now, counterRequest, oracleRequests, contributed>>

SetPaused ==
    \E sender \in Callers, _paused \in BOOLEAN :
        /\ Commit(setPaused(storage, sender, _paused))
        /\ UNCHANGED <<now, counterRequest, oracleRequests, contributed>>

SetCooldownSeconds ==
    \E sender \in Callers, _cooldownSeconds \in CooldownInputs :
        /\ Commit(setCooldownSeconds(storage, sender, _cooldownSeconds))
        /\ UNCHANGED <<now, counterRequest, oracleRequests, contributed>>

OpenBatch ==
    \E sender \in Callers :
        LET r == openBatch(storage, sender) IN
        /\ r.err = "ok" => storage.currentBatchId < MaxBatch /\ Ops < MaxOps
        /\ Commit(r)
        /\ UNCHANGED <<now, counterRequest, oracleRequests, contributed>>

CloseBatch ==
    \E sender \in Callers :
        /\ Commit(closeBatch(storage, sender))
        /\ UNCHANGED <<now, counterRequest, oracleRequests, contributed>>

SubmitGachaDraw ==
    \E sender \in Submitters, _drawCount \in DrawCounts :
        LET r == submitGachaDraw(storage, sender, _drawCount, now) IN
        /\ r.err = "ok" => Submits < MaxSubmits /\ Ops < MaxOps
        /\ Commit(r)
        /\ contributed' =
               IF r.err = "ok"
               THEN [contributed EXCEPT ![storage.currentBatchId][sender] = @ + _drawCount]
               ELSE contributed
        /\ UNCHANGED <<now, counterRequest, oracleRequests>>

RequestBatchDecryption ==
    \E sender \in Callers :
        LET r == requestBatchDecryption(storage, sender, now, counterRequest) IN
        /\ r.err = "ok" => counterRequest < MaxRequests /\ Ops < MaxOps
        /\ Commit(r)
        /\ IF r.err = "ok"
           THEN /\ counterRequest' = counterRequest + 1
                /\ oracleRequests' =
                       [oracleRequests EXCEPT ![counterRequest] =
                            ciphertexts(storage, storage.currentBatchId)]
           ELSE UNCHANGED <<counterRequest, oracleRequests>>
        /\ UNCHANGED <<now, contributed>>

MyCallback ==
    \E sender \in Callers, in \in CallbackInputs :
        /\ Commit(myCallback(storage, sender, in[1], in[2], in[3]))
        /\ UNCHANGED <<now, counterRequest, oracleRequests, contributed>>

Next ==
    \/ Tick
    \/ AddProvider
    \/ RemoveProvider
    \/ SetPaused
    \/ SetCooldownSeconds
    \/ OpenBatch
    \/ CloseBatch
    \/ SubmitGachaDraw
    \/ RequestBatchDecryption
    \/ MyCallback

Spec == Init /\ [][Next]_vars

\* batches with a decryption request issued and not yet completed
PendingBatches ==
    {storage.decryptionContexts[r].batchId :
        r \in {q \in Issued : ~storage.decryptionContexts[q].processed}}

\* A contribution written straight into the storage of a batch between a
\* decryption request and its callback, bypassing submitGachaDraw and its
\* guards: the forced mutation with which the state-hash guard of the
\* callback is exercised.
ForcedContribution ==
    \E b \in PendingBatches, c \in {0, 1},
       acc \in {"encryptedTotalPrizePool", "encryptedDrawCount"} :
        /\ Submits + PoolAdds < MaxSubmits
        /\ Ops < MaxOps
        /\ storage' = [storage EXCEPT ![acc][b] = add(@, asEuint32(c))]
        /\ UNCHANGED <<now, counterRequest, oracleRequests, contributed>>

NextForced == Next \/ ForcedContribution

SpecForced == Init /\ [][NextForced]_vars


---------------------------------------------------------------------------
(* Calls examined in every reachable state *)

\* callback payloads <<cleartexts, proof>>: valid and invalid
ProbePayloads ==
    {<<in[2], in[3]>> : in \in CallbackInputs}
        \cup {<<(<<0, 0>>), ForgedProof(0, <<0, 0>>)>>}

\* callback payloads <<cleartexts, proof>> for request id r: the oracle's
\* answer if r was issued, the same cleartexts under a forged proof and
\* altered cleartexts under the oracle's proof; a forgery if r was not
GatePayloads(r) ==
    IF r \in Issued
    THEN {<<GenuineProof(r).cleartexts, GenuineProof(r)>>,
          <<GenuineProof(r).cleartexts, ForgedProof(r, GenuineProof(r).cleartexts)>>,
          <<Altered(GenuineProof(r).cleartexts), GenuineProof(r)>>}
    ELSE {<<(<<0, 0>>), ForgedProof(r, <<0, 0>>)>>}

\* P holds of the outcome of every call of a function other than openBatch
\* that can be made in the current state
ForAllCallsButOpen(P(_)) ==
    /\ \A a \in Callers, p \in Address :
           P(addProvider(storage, a, p)) /\ P(removeProvider(storage, a, p))
    /\ \A a \in Callers, b \in BOOLEAN : P(setPaused(storage, a, b))
    /\ \A a \in Callers, c \in CooldownInputs : P(setCooldownSeconds(storage, a, c))
    /\ \A a \in Callers : P(closeBatch(storage, a))
    /\ \A a \in Callers, c \in DrawCounts : P(submitGachaDraw(storage, a, c, now))
    /\ \A a \in Callers : P(requestBatchDecryption(storage, a, now, counterRequest))
    /\ \A a \in Callers, r \in RequestIds, pl \in ProbePayloads :
           P(myCallback(storage, a, r, pl[1], pl[2]))

\* P holds of the outcome of every call that can be made in the current state
ForAllCalls(P(_)) ==
    /\ ForAllCallsButOpen(P)
    /\ \A a \in Callers : P(openBatch(storage, a))

---------------------------------------------------------------------------
(* C1: at most one batch is open at any time; currentBatchId starts at 0,  *)
(* every successful openBatch raises it by exactly 1, and no other call,   *)
(* a failing openBatch included, changes it.                               *)

\* the batches a submission would be written to if one were accepted now
WritableBatches ==
    {b \in BatchIds :
        \E a \in Callers, c \in DrawCounts :
            LET r == submitGachaDraw([storage EXCEPT !.paused = FALSE], a, c, UintMax)
            IN  \/ r.st.encryptedDrawCount[b] # storage.encryptedDrawCount[b]
                \/ r.st.encryptedPlayerDrawCounts[b] # storage.encryptedPlayerDrawCounts[b]}

KeepsBatchId(r) == r.st.currentBatchId = storage.currentBatchId

C1_Inv ==
    /\ Cardinality(WritableBatches) <= 1
    /\ WritableBatches \subseteq {storage.currentBatchId}
    /\ storage.batchOpen => storage.currentBatchId >= 1
    /\ ForAllCallsButOpen(KeepsBatchId)
    /\ \A a \in Callers :
           LET r == openBatch(storage, a) IN
           r.st.currentBatchId =
               IF r.err = "ok" THEN storage.currentBatchId + 1
               ELSE storage.currentBatchId

C1_Step ==
    storage'.currentBatchId # storage.currentBatchId =>
        /\ storage'.currentBatchId = storage.currentBatchId + 1
        /\ ~storage.batchOpen /\ storage'.batchOpen
        /\ \E a \in Callers :
               /\ openBatch(storage, a).err = "ok"
               /\ storage' = openBatch(storage, a).st

C1_BatchIds ==
    /\ storage.currentBatchId = 0 /\ ~storage.batchOpen
    /\ []C1_Inv
    /\ [][C1_Step]_vars

\* a second batch has been opened after the first was closed
C1_Witness == storage.currentBatchId = 2 /\ storage.batchOpen

---------------------------------------------------------------------------
(* C2: the reveal callback succeeds at most once per request id: once a    *)
(* context is processed it stays processed, and every callback for that    *)
(* request id fails with ReplayDetected and changes nothing, whatever      *)
(* cleartexts and proof it carries and whatever happened to the ledger.    *)

Rejected(res, e) == res.err = e /\ res.st = storage /\ res.ev = <<>>

C2_Inv ==
    \A r \in RequestIds :
        storage.decryptionContexts[r].processed =>
            \A a \in Callers, pl \in ProbePayloads :
                Rejected(myCallback(storage, a, r, pl[1], pl[2]), "ReplayDetected")

C2_Step ==
    \A r \in RequestIds :
        /\ storage.decryptionContexts[r].processed =>
               storage'.decryptionContexts[r].processed
        /\ (~storage.decryptionContexts[r].processed
                /\ storage'.decryptionContexts[r].processed) =>
               \E a \in Callers, pl \in ProbePayloads :
                   /\ myCallback(storage, a, r, pl[1], pl[2]).err = "ok"
                   /\ storage' = myCallback(storage, a, r, pl[1], pl[2]).st

C2_CallbackAtMostOnce == []C2_Inv /\ [][C2_Step]_vars

\* a request was completed and the ledger has moved on to a later batch
C2_Witness ==
    \E r \in Issued :
        /\ storage.decryptionContexts[r].processed
        /\ storage.currentBatchId > storage.decryptionContexts[r].batchId
        /\ myCallback(storage, "bob", r, GenuineProof(r).cleartexts,
                      GenuineProof(r)).err = "ReplayDetected"

---------------------------------------------------------------------------
(* C3: when a handle of the context's batch differs at callback time from  *)
(* the handle hashed at request time, the callback of a pending request    *)
(* fails with StateMismatch, the context stays unprocessed and nothing is  *)
(* emitted, even under the oracle's valid proof.                           *)

Drifted(r) ==
    /\ ~storage.decryptionContexts[r].processed
    /\ ciphertexts(storage, storage.decryptionContexts[r].batchId) # oracleRequests[r]

C3_StateMismatch ==
    \A r \in Issued :
        Drifted(r) =>
            \A a \in Callers, pl \in ProbePayloads :
                /\ Rejected(myCallback(storage, a, r, pl[1], pl[2]), "StateMismatch")
                /\ ~myCallback(storage, a, r, pl[1], pl[2]).st.decryptionContexts[r].processed

\* a contribution was forced into the draw count of a batch with a pending
\* request, and the callback carrying the oracle's proof is refused
C3_Witness ==
    \E r \in Issued :
        /\ Drifted(r)
        /\ ciphertexts(storage, storage.decryptionContexts[r].batchId)[1] = oracleRequests[r][1]
        /\ myCallback(storage, "bob", r, GenuineProof(r).cleartexts,
                      GenuineProof(r)).err = "StateMismatch"

---------------------------------------------------------------------------
(* C4: within a batch, the plaintext behind a participant's counter is the *)
(* sum of the counts that participant submitted, and the plaintext behind  *)
(* the batch's draw count is the sum over all participants.                *)

BatchTotal(b) == SumSeq([i \in 1..3 |-> contributed[b][<<Deployer, "alice", "bob">>[i]]])

Accumulated(b, p) ==
    IF isInitialized(storage.encryptedPlayerDrawCounts[b][p])
    THEN Decrypt(storage.encryptedPlayerDrawCounts[b][p]) ELSE 0

\* the claim as stated: the plaintexts are the integer sums
C4_ExactSums ==
    \A b \in 1..MaxBatch :
        /\ \A p \in Callers : Accumulated(b, p) = contributed[b][p]
        /\ isInitialized(storage.encryptedDrawCount[b]) =>
               Decrypt(storage.encryptedDrawCount[b]) = BatchTotal(b)

\* amended: the plaintexts are the sums modulo 2^width (the integer sums
\* whenever these are below 2^width)
C4_SumsModWidth ==
    \A b \in 1..MaxBatch :
        /\ \A p \in Callers :
               /\ Accumulated(b, p) = contributed[b][p] % EuintMod
               /\ contributed[b][p] > 0 =>
                      isInitialized(storage.encryptedPlayerDrawCounts[b][p])
        /\ isInitialized(storage.encryptedDrawCount[b]) =>
               Decrypt(storage.encryptedDrawCount[b]) = BatchTotal(b) % EuintMod
        /\ ~isInitialized(storage.encryptedDrawCount[b]) => BatchTotal(b) = 0

\* two participants have contributed to one batch, with a non-zero total
\* that fits the width
C4_Witness ==
    \E b \in 1..MaxBatch :
        /\ contributed[b]["alice"] > 0 /\ contributed[b]["bob"] > 0
        /\ BatchTotal(b) < EuintMod
        /\ Decrypt(storage.encryptedDrawCount[b]) = BatchTotal(b)

---------------------------------------------------------------------------
(* C5: a call that fails leaves the whole state as it was before the call; *)
(* in particular a requestBatchDecryption that fails with NotInitialized   *)
(* after its cooldown check has passed records no timestamp.               *)

FailsClean(r) == r.err # "ok" => r.st = storage /\ r.ev = <<>>

C5_Inv == ForAllCalls(FailsClean)

\* a step that leaves the contract's storage alone leaves the oracle's
\* requests and the request counter alone
C5_Step ==
    storage' = storage => UNCHANGED <<counterRequest, oracleRequests, contributed>>

C5_FailedCallsChangeNothing == []C5_Inv /\ [][C5_Step]_vars

\* a provider other than the owner requests a reveal before any batch was
\* opened: its cooldown check passes and the call fails with NotInitialized
C5_Witness ==
    /\ storage.isProvider["alice"] /\ ~storage.paused
    /\ storage.currentBatchId = 0
    /\ now >= storage.lastDecryptionRequestTime["alice"] + storage.cooldownSeconds
    /\ requestBatchDecryption(storage, "alice", now, counterRequest).err = "NotInitialized"

---------------------------------------------------------------------------
(* C6: while the pause flag is set, openBatch, closeBatch, submitGachaDraw, *)
(* requestBatchDecryption and the reveal callback all fail and change no   *)
(* state, so no decryption context becomes processed while paused.         *)

Fails(r) == r.err # "ok" /\ r.st = storage /\ r.ev = <<>>

\* the four functions carrying the whenNotPaused modifier
C6_GatedCallsFail ==
    storage.paused =>
        /\ \A a \in Callers : Fails(openBatch(storage, a)) /\ Fails(closeBatch(storage, a))
        /\ \A a \in Callers, c \in DrawCounts : Fails(submitGachaDraw(storage, a, c, now))
        /\ \A a \in Callers : Fails(requestBatchDecryption(storage, a, now, counterRequest))

C6_CallbackFails ==
    storage.paused =>
        \A a \in Callers, r \in RequestIds, pl \in ProbePayloads :
            Fails(myCallback(storage, a, r, pl[1], pl[2]))

C6_NoProcessingStep ==
    storage.paused =>
        \A r \in RequestIds :
            storage'.decryptionContexts[r].processed
                = storage.decryptionContexts[r].processed

\* the claim as stated
C6_PausedRejectsAll ==
    /\ []C6_GatedCallsFail
    /\ []C6_CallbackFails
    /\ [][C6_NoProcessingStep]_vars

---------------------------------------------------------------------------
(* C7: submitGachaDraw by any caller fails with BatchClosed and changes no *)
(* state whenever no batch is open: before the first openBatch and after   *)
(* every closeBatch until the next openBatch.                              *)

\* the claim as stated
C7_AlwaysBatchClosed ==
    ~storage.batchOpen =>
        \A a \in Callers, c \in DrawCounts :
            Rejected(submitGachaDraw(storage, a, c, now), "BatchClosed")

\* amended: the pause check comes first, so the error is Paused while the
\* contract is paused and BatchClosed otherwise
C7_NoBatchOpen ==
    ~storage.batchOpen =>
        \A a \in Callers, c \in DrawCounts :
            Rejected(submitGachaDraw(storage, a, c, now),
                     IF storage.paused THEN "Paused" ELSE "BatchClosed")

\* a batch with contributions was closed, and a further submission by a
\* participant whose cooldown has passed is refused
C7_Witness ==
    /\ storage.currentBatchId >= 1 /\ ~storage.batchOpen /\ ~storage.paused
    /\ contributed[storage.currentBatchId]["alice"] > 0
    /\ now >= storage.lastSubmissionTime["alice"] + storage.cooldownSeconds
    /\ submitGachaDraw(storage, "alice", 1, now).err = "BatchClosed"

---------------------------------------------------------------------------
(* C8: the lifecycle guards never silently no-op: openBatch by a provider  *)
(* while a batch is open fails with BatchNotClosed, closeBatch by a        *)
(* provider while no batch is open fails with BatchClosed; nothing changes *)
(* and no BatchOpened / BatchClosed event is emitted.                      *)

\* the claim as stated
C8_AlwaysLifecycleError ==
    \A a \in Callers :
        storage.isProvider[a] =>
            /\ storage.batchOpen => Rejected(openBatch(storage, a), "BatchNotClosed")
            /\ ~storage.batchOpen => Rejected(closeBatch(storage, a), "BatchClosed")

\* amended: the pause check comes first, so the error is Paused while the
\* contract is paused
C8_LifecycleGuards ==
    \A a \in Callers :
        storage.isProvider[a] =>
            /\ storage.batchOpen =>
                   Rejected(openBatch(storage, a),
                            IF storage.paused THEN "Paused" ELSE "BatchNotClosed")
            /\ ~storage.batchOpen =>
                   Rejected(closeBatch(storage, a),
                            IF storage.paused THEN "Paused" ELSE "BatchClosed")

\* the second batch was opened and closed; closing it again is refused
C8_Witness ==
    /\ storage.currentBatchId = 2 /\ ~storage.batchOpen /\ ~storage.paused
    /\ storage.isProvider["alice"]
    /\ closeBatch(storage, "alice").err = "BatchClosed"

---------------------------------------------------------------------------
(* C9: the reveal cooldown is per provider: after X's successful request   *)
(* at time t, a request by X at now < t + cooldown fails with              *)
(* CooldownActive, while a request by another provider Y on the same       *)
(* closed batch succeeds and creates its own context; the timestamp is     *)
(* recorded in the step of the successful request.                         *)

\* X made a successful request at lastDecryptionRequestTime[X] and the
\* cooldown since then has not passed
InWindow(x) ==
    /\ storage.lastDecryptionRequestTime[x] > 0
    /\ now < storage.lastDecryptionRequestTime[x] + storage.cooldownSeconds

CooldownPassed(y) ==
    /\ ~AddOverflows(storage.lastDecryptionRequestTime[y], storage.cooldownSeconds)
    /\ now >= storage.lastDecryptionRequestTime[y] + storage.cooldownSeconds

Request(a) == requestBatchDecryption(storage, a, now, counterRequest)

\* Y's request succeeds, stores a context of its own under the new request
\* id and records Y's timestamp, and nothing else
OwnContext(y) ==
    /\ Request(y).err = "ok"
    /\ Request(y).st =
           [storage EXCEPT
               !.lastDecryptionRequestTime[y] = now,
               !.decryptionContexts[counterRequest] =
                   [batchId |-> storage.currentBatchId,
                    stateHash |-> _hashCiphertexts(
                        ciphertexts(storage, storage.currentBatchId)),
                    processed |-> FALSE]]

C9_OtherProviderSucceeds ==
    \A x, y \in Callers :
        (/\ x # y /\ InWindow(x)
         /\ storage.isProvider[y] /\ ~storage.paused /\ ~storage.batchOpen
         /\ storage.currentBatchId >= 1 /\ CooldownPassed(y)) => OwnContext(y)

C9_TimestampWithRequest ==
    \A a \in Callers :
        storage'.lastDecryptionRequestTime[a] # storage.lastDecryptionRequestTime[a] =>
            /\ storage'.lastDecryptionRequestTime[a] = now
            /\ Request(a).err = "ok" /\ storage' = Request(a).st
            /\ counterRequest' = counterRequest + 1

\* the claim as stated
C9_InWindowCooldownActive ==
    \A x \in Callers : InWindow(x) => Rejected(Request(x), "CooldownActive")

C9_AlwaysCooldownActive ==
    /\ []C9_InWindowCooldownActive
    /\ []C9_OtherProviderSucceeds
    /\ [][C9_TimestampWithRequest]_vars

\* amended: X's request in the window always fails and changes nothing; the
\* error is that of the first failing check: NotProvider if X was removed,
\* Paused if paused, BatchNotClosed if a batch was opened since, an
\* arithmetic panic if t + cooldown overflows uint256, else CooldownActive
C9_InWindowError(x) ==
    IF ~storage.isProvider[x] THEN "NotProvider"
    ELSE IF storage.paused THEN "Paused"
    ELSE IF storage.batchOpen THEN "BatchNotClosed"
    ELSE IF AddOverflows(storage.lastDecryptionRequestTime[x], storage.cooldownSeconds)
        THEN "Panic"
    ELSE "CooldownActive"

C9_InWindowRejected ==
    \A x \in Callers : InWindow(x) => Rejected(Request(x), C9_InWindowError(x))

C9_PerProviderCooldown ==
    /\ []C9_InWindowRejected
    /\ []C9_OtherProviderSucceeds
    /\ [][C9_TimestampWithRequest]_vars

\* two providers have each requested a reveal of the same closed batch at
\* the same time; each has a context of its own and each is now refused
C9_Witness ==
    /\ counterRequest = 2 /\ ~storage.batchOpen /\ ~storage.paused
    /\ storage.lastDecryptionRequestTime[Deployer] = now
    /\ storage.lastDecryptionRequestTime["alice"] = now
    /\ storage.decryptionContexts[0].batchId = storage.decryptionContexts[1].batchId
    /\ storage.decryptionContexts[0].batchId = storage.currentBatchId
    /\ Request(Deployer).err = "CooldownActive"
    /\ Request("alice").err = "CooldownActive"

---------------------------------------------------------------------------
(* C10: cooldowns are independent per actor and action class: a successful *)
(* submitGachaDraw by A changes only A's submission timestamp, a           *)
(* successful requestBatchDecryption by A changes only A's request         *)
(* timestamp, and neither function's outcome depends on the timestamps of  *)
(* the other class.                                                        *)

Stamped(f, a) == [f EXCEPT ![a] = now]

AllAt(v) == [a \in Address |-> v]

C10_IndependentCooldowns ==
    /\ \A a \in Callers, c \in DrawCounts :
           LET r == submitGachaDraw(storage, a, c, now) IN
           /\ r.err = "ok" =>
                  /\ r.st.lastSubmissionTime = Stamped(storage.lastSubmissionTime, a)
                  /\ r.st.lastDecryptionRequestTime = storage.lastDecryptionRequestTime
           /\ \A v \in {0, now} :
                  submitGachaDraw([storage EXCEPT !.lastDecryptionRequestTime = AllAt(v)],
                                  a, c, now).err = r.err
    /\ \A a \in Callers :
           LET r == Request(a) IN
           /\ r.err = "ok" =>
                  /\ r.st.lastDecryptionRequestTime =
                         Stamped(storage.lastDecryptionRequestTime, a)
                  /\ r.st.lastSubmissionTime = storage.lastSubmissionTime
           /\ \A v \in {0, now} :
                  requestBatchDecryption([storage EXCEPT !.lastSubmissionTime = AllAt(v)],
                                         a, now, counterRequest).err = r.err

\* a provider submitted and, the batch having been closed, requested a
\* reveal at the same timestamp
C10_Witness ==
    /\ storage.lastSubmissionTime["alice"] = now
    /\ storage.lastDecryptionRequestTime["alice"] = now
    /\ storage.lastSubmissionTime["bob"] = 0
    /\ storage.lastDecryptionRequestTime[Deployer] = 0

---------------------------------------------------------------------------
(* C11: submitGachaDraw with a count of 0 is rejected with                 *)
(* InvalidParameter and changes no state: no accumulator is initialized    *)
(* or updated, no submission timestamp is recorded and no GachaSubmitted   *)
(* event is emitted.                                                       *)

\* the guards that come before any check of the count all pass for a
CanSubmit(a) ==
    /\ ~storage.paused /\ storage.batchOpen
    /\ ~AddOverflows(storage.lastSubmissionTime[a], storage.cooldownSeconds)
    /\ now >= storage.lastSubmissionTime[a] + storage.cooldownSeconds

\* the claim as stated
C11_ZeroCountRejected ==
    \A a \in Callers :
        LET r == submitGachaDraw(storage, a, 0, now) IN
        /\ Fails(r)
        /\ CanSubmit(a) => r.err = "InvalidParameter"

---------------------------------------------------------------------------
(* C12: decryption contexts are append-only and processed is monotonic:    *)
(* once a context exists for a request id its batchId and stateHash never  *)
(* change and it is never removed, and once processed is true it stays     *)
(* true, under any sequence of calls, further requests and callbacks       *)
(* included.                                                               *)

\* the request ids for which a context has been stored
StoredContexts == {r \in RequestIds : storage.decryptionContexts[r] # NoContext}

\* storage t keeps every stored context of the current storage
KeepsContexts(t) ==
    \A r \in StoredContexts :
        /\ t.decryptionContexts[r].batchId = storage.decryptionContexts[r].batchId
        /\ t.decryptionContexts[r].stateHash = storage.decryptionContexts[r].stateHash
        /\ storage.decryptionContexts[r].processed => t.decryptionContexts[r].processed

CallKeepsContexts(r) == KeepsContexts(r.st)

C12_Inv ==
    /\ ForAllCalls(CallKeepsContexts)
    /\ StoredContexts = Issued

C12_Step == KeepsContexts(storage')

C12_ContextsAppendOnly == []C12_Inv /\ [][C12_Step]_vars

\* a completed context is still stored, and still processed, after a
\* further request was made and a further batch opened
C12_Witness ==
    /\ counterRequest = 2
    /\ storage.decryptionContexts[0].processed
    /\ ~storage.decryptionContexts[1].processed
    /\ storage.decryptionContexts[1].batchId > storage.decryptionContexts[0].batchId

---------------------------------------------------------------------------
(* C13: a pending reveal does not freeze the ledger and later batches do   *)
(* not invalidate it: after a request for closed batch N, openBatch        *)
(* succeeds and creates N + 1, submissions to N + 1 are accepted, and a    *)
(* later callback for N's request with a valid proof succeeds and reports  *)
(* batch id N.                                                             *)

\* requests made and not yet completed
Pending == {r \in Issued : ~storage.decryptionContexts[r].processed}

\* the callback the oracle makes for request r, relayed by a
OracleCallback(s, a, r) ==
    myCallback(s, a, r, GenuineProof(r).cleartexts, GenuineProof(r))

Completed(s, r) == [s EXCEPT !.decryptionContexts[r].processed = TRUE]

C13_PendingRevealDoesNotBlock ==
    \A r \in Pending :
        LET N == storage.decryptionContexts[r].batchId IN
        /\ \A a \in Callers :
               (storage.isProvider[a] /\ ~storage.paused /\ ~storage.batchOpen) =>
                   LET o == openBatch(storage, a) IN
                   /\ o.err = "ok"
                   /\ o.st.currentBatchId = storage.currentBatchId + 1
                   /\ o.st.currentBatchId > N
                   /\ o.st.batchOpen
                   /\ OracleCallback(o.st, a, r).err = "ok"
        /\ \A a \in Callers, c \in DrawCounts :
               (CanSubmit(a) /\ storage.currentBatchId > N) =>
                   LET u == submitGachaDraw(storage, a, c, now) IN
                   /\ u.err = "ok"
                   /\ u.st.encryptedDrawCount[storage.currentBatchId]
                          # storage.encryptedDrawCount[storage.currentBatchId]
                   /\ OracleCallback(u.st, a, r).err = "ok"
        /\ \A a \in Callers :
               LET cb == OracleCallback(storage, a, r) IN
               /\ cb.err = "ok"
               /\ cb.st = Completed(storage, r)
               /\ cb.ev = <<[name |-> "DecryptionCompleted",
                             args |-> <<r, N, GenuineProof(r).cleartexts[1]>>]>>

\* batch 1 has a pending request; batch 2 was opened since and has taken a
\* submission; the oracle's callback for batch 1 would succeed
C13_Witness ==
    /\ 0 \in Pending
    /\ storage.decryptionContexts[0].batchId = 1
    /\ storage.currentBatchId = 2 /\ storage.batchOpen
    /\ \E a \in Submitters : contributed[2][a] > 0
    /\ OracleCallback(storage, "bob", 0).err = "ok"

---------------------------------------------------------------------------
(* C14: outstanding requests do not interfere: every successful request    *)
(* stores a context of its own under a fresh request id, also when made    *)
(* again for the same closed batch; a callback for request r1 changes      *)
(* only r1's context; two pending requests can be completed by valid       *)
(* callbacks in either order with the same final state.                    *)

C14_IndependentRequests ==
    /\ \A a \in Callers :
           LET q == Request(a) IN
           q.err = "ok" =>
               /\ counterRequest \notin StoredContexts
               /\ q.st.decryptionContexts[counterRequest] # NoContext
               /\ \A r \in RequestIds \ {counterRequest} :
                      q.st.decryptionContexts[r] = storage.decryptionContexts[r]
    /\ \A r1 \in RequestIds :
           \A a \in Callers, pl \in GatePayloads(r1) :
               LET cb == myCallback(storage, a, r1, pl[1], pl[2]) IN
               cb.st = storage \/ cb.st = Completed(storage, r1)
    /\ \A r1, r2 \in Pending :
           r1 < r2 =>
               \A a, b \in Callers :
                   LET first == OracleCallback(storage, a, r1)
                       then == OracleCallback(first.st, b, r2)
                       other == OracleCallback(storage, b, r2)
                       last == OracleCallback(other.st, a, r1)
                   IN  /\ first.err = "ok" /\ then.err = "ok"
                       /\ other.err = "ok" /\ last.err = "ok"
                       /\ then.st = last.st
                       /\ then.st = Completed(Completed(storage, r1), r2)

\* two requests for the same closed batch are pending at once
C14_Witness ==
    /\ Pending = {0, 1}
    /\ storage.decryptionContexts[0].batchId = storage.decryptionContexts[1].batchId
    /\ ~storage.batchOpen

---------------------------------------------------------------------------
(* C15: requestBatchDecryption succeeds only when a batch exists and is    *)
(* closed: it fails and creates no context whenever the current batch is   *)
(* open and whenever no batch was ever opened (batch id 0), and the two    *)
(* failures are distinguishable: BatchNotClosed for an open batch,         *)
(* NotInitialized for batch id 0.                                          *)

C15_RequestNeedsClosedBatch ==
    \A a \in Callers :
        LET q == Request(a) IN
        /\ q.err = "ok" => storage.currentBatchId >= 1 /\ ~storage.batchOpen
        /\ (storage.batchOpen \/ storage.currentBatchId = 0) => Fails(q)
        /\ q.err = "BatchNotClosed" => storage.batchOpen
        /\ q.err = "NotInitialized" => ~storage.batchOpen /\ storage.currentBatchId = 0
        /\ (storage.isProvider[a] /\ ~storage.paused) =>
               /\ storage.batchOpen => q.err = "BatchNotClosed"
               /\ (~storage.batchOpen /\ storage.currentBatchId = 0 /\ CooldownPassed(a))
                      => q.err = "NotInitialized"

\* a request was accepted for closed batch 1 and is refused for open batch 2
C15_Witness ==
    /\ counterRequest = 1 /\ storage.decryptionContexts[0].batchId = 1
    /\ storage.currentBatchId = 2 /\ storage.batchOpen /\ ~storage.paused
    /\ Request(Deployer).err = "BatchNotClosed"

---------------------------------------------------------------------------
(* C16: administration is owner-only: addProvider, removeProvider,         *)
(* setPaused and setCooldownSeconds called by anyone but the owner fail    *)
(* with NotOwner and change nothing; addProvider and removeProvider with   *)
(* the zero address fail with InvalidParameter; so the provider set, the   *)
(* pause flag and the cooldown are only ever changed by the owner, and     *)
(* the owner never changes.                                                *)

C16_Inv ==
    /\ storage.owner = Deployer
    /\ \A a \in Callers \ {storage.owner} :
           /\ \A p \in Address :
                  /\ Rejected(addProvider(storage, a, p), "NotOwner")
                  /\ Rejected(removeProvider(storage, a, p), "NotOwner")
           /\ \A b \in BOOLEAN : Rejected(setPaused(storage, a, b), "NotOwner")
           /\ \A c \in CooldownInputs :
                  Rejected(setCooldownSeconds(storage, a, c), "NotOwner")
    /\ Rejected(addProvider(storage, storage.owner, ZeroAddress), "InvalidParameter")
    /\ Rejected(removeProvider(storage, storage.owner, ZeroAddress), "InvalidParameter")

\* the successful administration calls the owner can make
OwnerAdministration ==
    {r.st : r \in {q \in
        {addProvider(storage, storage.owner, p) : p \in Address}
            \cup {removeProvider(storage, storage.owner, p) : p \in Address}
            \cup {setPaused(storage, storage.owner, b) : b \in BOOLEAN}
            \cup {setCooldownSeconds(storage, storage.owner, c) : c \in CooldownInputs} :
        q.err = "ok"}}

C16_Step ==
    /\ storage'.owner = storage.owner
    /\ (\/ storage'.isProvider # storage.isProvider
        \/ storage'.paused # storage.paused
        \/ storage'.cooldownSeconds # storage.cooldownSeconds)
           => storage' \in OwnerAdministration

C16_OwnerOnlyAdministration == []C16_Inv /\ [][C16_Step]_vars

\* the owner has added a provider, paused and changed the cooldown; the
\* provider's own administration calls are refused
C16_Witness ==
    /\ storage.isProvider["alice"] /\ storage.paused
    /\ storage.cooldownSeconds # DefaultCooldown
    /\ setPaused(storage, "alice", FALSE).err = "NotOwner"

---------------------------------------------------------------------------
(* C17: openBatch, closeBatch and requestBatchDecryption succeed only for  *)
(* a caller currently in the provider set, which is {owner} at creation,   *)
(* plus every address added by addProvider, minus every address removed    *)
(* by removeProvider since (the owner included); a non-member's call       *)
(* fails with NotProvider and changes nothing, and the provider check      *)
(* comes before the pause check.                                           *)

C17_Inv ==
    \A a \in Callers :
        /\ ~storage.isProvider[a] =>
               /\ Rejected(openBatch(storage, a), "NotProvider")
               /\ Rejected(closeBatch(storage, a), "NotProvider")
               /\ Rejected(Request(a), "NotProvider")
        /\ (storage.isProvider[a] /\ storage.paused) =>
               /\ Rejected(openBatch(storage, a), "Paused")
               /\ Rejected(closeBatch(storage, a), "Paused")
               /\ Rejected(Request(a), "Paused")

C17_Step ==
    \A a \in Address :
        storage'.isProvider[a] # storage.isProvider[a] =>
            \/ /\ storage'.isProvider[a]
               /\ addProvider(storage, storage.owner, a).err = "ok"
               /\ storage' = addProvider(storage, storage.owner, a).st
            \/ /\ ~storage'.isProvider[a]
               /\ removeProvider(storage, storage.owner, a).err = "ok"
               /\ storage' = removeProvider(storage, storage.owner, a).st

C17_ProviderOnlyLifecycle ==
    /\ storage.isProvider = [a \in Address |-> a = storage.owner]
    /\ []C17_Inv
    /\ [][C17_Step]_vars

\* the owner has added alice and removed itself; while paused, the owner's
\* calls are refused for want of the role, alice's for the pause
C17_Witness ==
    /\ ~storage.isProvider[Deployer] /\ storage.isProvider["alice"]
    /\ storage.paused
    /\ openBatch(storage, Deployer).err = "NotProvider"
    /\ openBatch(storage, "alice").err = "Paused"

---------------------------------------------------------------------------
(* C18: the callback is authorized by proof, not by caller: for the same   *)
(* state, request id, cleartexts and proof, myCallback has the same        *)
(* outcome and the same effect whoever calls it (owner, provider, removed  *)
(* provider or stranger), and a callback whose proof does not verify       *)
(* never marks a context processed.                                        *)

\* every caller gets the outcome the owner gets, hence any two the same
C18_ProofNotCaller ==
    \A r \in RequestIds :
        \A pl \in GatePayloads(r) :
            LET byOwner == myCallback(storage, storage.owner, r, pl[1], pl[2]) IN
            \A a \in Callers :
                LET cb == myCallback(storage, a, r, pl[1], pl[2]) IN
                /\ cb = byOwner
                /\ ~checkSignatures(r, pl[1], pl[2]) => Fails(cb)

\* a request is pending; the owner has lost the provider role, alice holds
\* it and bob never did: bob's relay of the oracle's answer is accepted,
\* alice's forgery is not
C18_Witness ==
    /\ 0 \in Pending
    /\ ~storage.isProvider[Deployer] /\ storage.isProvider["alice"]
    /\ OracleCallback(storage, "bob", 0).err = "ok"
    /\ myCallback(storage, "alice", 0, GenuineProof(0).cleartexts,
                  ForgedProof(0, GenuineProof(0).cleartexts)).err = "InvalidProof"

---------------------------------------------------------------------------
(* C19: setPaused called by the owner succeeds in every reachable state,   *)
(* also while paused and when the flag already has the value given, and    *)
(* changes nothing but the pause flag; so the owner can always unpause.    *)

C19_OwnerCanAlwaysSetPaused ==
    /\ storage.owner \in Callers
    /\ \A b \in BOOLEAN :
           LET r == setPaused(storage, storage.owner, b) IN
           /\ r.err = "ok"
           /\ r.st = [storage EXCEPT !.paused = b]
           /\ r.ev = <<[name |-> "PausedSet", args |-> <<b>>]>>

\* paused with a batch open and a reveal pending: the owner can pause again
\* and can unpause
C19_Witness ==
    /\ storage.paused /\ storage.batchOpen /\ Pending # {}
    /\ setPaused(storage, storage.owner, TRUE).err = "ok"
    /\ ~setPaused(storage, storage.owner, FALSE).st.paused

---------------------------------------------------------------------------
(* C20: every stored decryption context refers to a batch that was closed  *)
(* when the request was made and is never the currently open batch:        *)
(* 1 <= batchId <= currentBatchId, and batchId = currentBatchId implies    *)
(* that no batch is open.                                                  *)

C20_ContextsOfClosedBatches ==
    /\ \A r \in StoredContexts :
           LET b == storage.decryptionContexts[r].batchId IN
           /\ 1 <= b /\ b <= storage.currentBatchId
           /\ b = storage.currentBatchId => ~storage.batchOpen
    /\ \A a \in Callers :
           Request(a).err = "ok" =>
               /\ ~storage.batchOpen
               /\ Request(a).st.decryptionContexts[counterRequest].batchId
                      = storage.currentBatchId

\* contexts are stored for batch 1 and for batch 2, the current batch,
\* which is closed
C20_Witness ==
    /\ StoredContexts = {0, 1}
    /\ storage.decryptionContexts[0].batchId = 1
    /\ storage.decryptionContexts[1].batchId = 2
    /\ storage.currentBatchId = 2 /\ ~storage.batchOpen

---------------------------------------------------------------------------
(* C21: the entries of a batch are written only while it is the open       *)
(* batch: a successful submitGachaDraw changes only the draw count of the  *)
(* current batch, the caller's counter in it and the caller's submission   *)
(* timestamp; closeBatch changes only the open flag; no call changes an    *)
(* accumulator of a batch that is closed or older than the current one.    *)

Accumulators(s, b) ==
    <<s.encryptedTotalPrizePool[b], s.encryptedDrawCount[b],
      s.encryptedPlayerDrawCounts[b]>>

\* the batches whose accumulators differ between storages s and t
Written(s, t) == {b \in BatchIds : Accumulators(s, b) # Accumulators(t, b)}

WritesOnlyOpenBatch(r) ==
    \A b \in Written(storage, r.st) : b = r.st.currentBatchId /\ r.st.batchOpen

\* the call writes no accumulator at all
KeepsAccumulators(r) ==
    /\ r.st.encryptedTotalPrizePool = storage.encryptedTotalPrizePool
    /\ r.st.encryptedDrawCount = storage.encryptedDrawCount
    /\ r.st.encryptedPlayerDrawCounts = storage.encryptedPlayerDrawCounts

C21_Inv ==
    /\ \A a \in Callers :
           /\ WritesOnlyOpenBatch(openBatch(storage, a))
           /\ KeepsAccumulators(closeBatch(storage, a))
           /\ KeepsAccumulators(Request(a))
           /\ \A c \in DrawCounts :
                  WritesOnlyOpenBatch(submitGachaDraw(storage, a, c, now))
           /\ \A p \in Address :
                  /\ KeepsAccumulators(addProvider(storage, a, p))
                  /\ KeepsAccumulators(removeProvider(storage, a, p))
           /\ \A b \in BOOLEAN : KeepsAccumulators(setPaused(storage, a, b))
           /\ \A c \in CooldownInputs :
                  KeepsAccumulators(setCooldownSeconds(storage, a, c))
           /\ \A r \in Issued : KeepsAccumulators(OracleCallback(storage, a, r))
    /\ \A a \in Callers, c \in DrawCounts :
           LET r == submitGachaDraw(storage, a, c, now)
               id == storage.currentBatchId
           IN  r.err = "ok" =>
                   /\ storage.batchOpen
                   /\ r.st = [storage EXCEPT
                                 !.encryptedDrawCount[id] = r.st.encryptedDrawCount[id],
                                 !.encryptedPlayerDrawCounts[id][a] =
                                     r.st.encryptedPlayerDrawCounts[id][a],
                                 !.lastSubmissionTime[a] = r.st.lastSubmissionTime[a]]
    /\ \A a \in Callers :
           closeBatch(storage, a).err = "ok" =>
               closeBatch(storage, a).st = [storage EXCEPT !.batchOpen = FALSE]

C21_Step ==
    \/ /\ storage'.encryptedTotalPrizePool = storage.encryptedTotalPrizePool
       /\ storage'.encryptedDrawCount = storage.encryptedDrawCount
       /\ storage'.encryptedPlayerDrawCounts = storage.encryptedPlayerDrawCounts
    \/ \A b \in Written(storage, storage') :
           b = storage'.currentBatchId /\ storage'.batchOpen

C21_WrittenOnlyWhileOpen == []C21_Inv /\ [][C21_Step]_vars

\* batch 1 took a submission and was closed; batch 2 is open and has taken one
C21_Witness ==
    /\ storage.currentBatchId = 2 /\ storage.batchOpen
    /\ \E a \in Submitters : contributed[1][a] > 0
    /\ \E a \in Submitters : contributed[2][a] > 0

---------------------------------------------------------------------------
(* C22: openBatch seeds both aggregates of the new batch, so a batch       *)
(* opened and closed without submissions can be revealed: a provider's     *)
(* request on a closed batch with id >= 1 (not paused, cooldown passed)    *)
(* never fails with NotInitialized, and NotInitialized is a possible       *)
(* outcome of a request only while currentBatchId = 0.                     *)

C22_SeededAtOpen ==
    /\ \A a \in Callers :
           LET o == openBatch(storage, a) IN
           o.err = "ok" =>
               /\ o.st.encryptedTotalPrizePool[o.st.currentBatchId] = asEuint32(0)
               /\ o.st.encryptedDrawCount[o.st.currentBatchId] = asEuint32(0)
    /\ \A a \in Callers :
           /\ Request(a).err = "NotInitialized" => storage.currentBatchId = 0
           /\ (/\ storage.isProvider[a] /\ ~storage.paused /\ ~storage.batchOpen
               /\ storage.currentBatchId >= 1 /\ CooldownPassed(a))
                  => Request(a).err = "ok"

\* a request was accepted for batch 1, which was closed with no submission
C22_Witness ==
    /\ 0 \in StoredContexts
    /\ storage.decryptionContexts[0].batchId = 1
    /\ storage.encryptedDrawCount[1] = asEuint32(0)
    /\ \A a \in Callers : ~isInitialized(storage.encryptedPlayerDrawCounts[1][a])

---------------------------------------------------------------------------
(* C23: initialization invariant: encryptedTotalPrizePool[b] and           *)
(* encryptedDrawCount[b] are initialized if and only if                    *)
(* 1 <= b <= currentBatchId; encryptedPlayerDrawCounts[b][p] is            *)
(* initialized if and only if p has an accepted submission in batch b;     *)
(* no accumulator goes from initialized back to uninitialized.             *)

Opened(b) == 1 <= b /\ b <= storage.currentBatchId

C23_Inv ==
    /\ \A b \in BatchIds :
           /\ isInitialized(storage.encryptedTotalPrizePool[b]) <=> Opened(b)
           /\ isInitialized(storage.encryptedDrawCount[b]) <=> Opened(b)
           /\ \A p \in Address :
                  /\ isInitialized(storage.encryptedPlayerDrawCounts[b][p]) =>
                         Opened(b) /\ p # ZeroAddress
                  /\ contributed[b][p] > 0 =>
                         isInitialized(storage.encryptedPlayerDrawCounts[b][p])
    \* an accepted submission leaves the caller's counter initialized
    /\ \A a \in Callers, c \in DrawCounts :
           LET r == submitGachaDraw(storage, a, c, now) IN
           r.err = "ok" =>
               isInitialized(r.st.encryptedPlayerDrawCounts[storage.currentBatchId][a])

\* a counter becomes initialized only in the step of an accepted submission
\* by its participant to its batch, and nothing becomes uninitialized
C23_Step ==
    \/ /\ storage'.encryptedTotalPrizePool = storage.encryptedTotalPrizePool
       /\ storage'.encryptedDrawCount = storage.encryptedDrawCount
       /\ storage'.encryptedPlayerDrawCounts = storage.encryptedPlayerDrawCounts
    \/ \A b \in BatchIds :
           /\ isInitialized(storage.encryptedTotalPrizePool[b]) =>
                  isInitialized(storage'.encryptedTotalPrizePool[b])
           /\ isInitialized(storage.encryptedDrawCount[b]) =>
                  isInitialized(storage'.encryptedDrawCount[b])
           /\ \A p \in Address :
                  /\ isInitialized(storage.encryptedPlayerDrawCounts[b][p]) =>
                         isInitialized(storage'.encryptedPlayerDrawCounts[b][p])
                  /\ (/\ ~isInitialized(storage.encryptedPlayerDrawCounts[b][p])
                      /\ isInitialized(storage'.encryptedPlayerDrawCounts[b][p])) =>
                         /\ b = storage.currentBatchId
                         /\ \E c \in DrawCounts :
                                /\ submitGachaDraw(storage, p, c, now).err = "ok"
                                /\ storage' = submitGachaDraw(storage, p, c, now).st

C23_Initialization ==
    /\ \A b \in BatchIds, p \in Address :
           ~isInitialized(storage.encryptedPlayerDrawCounts[b][p])
    /\ []C23_Inv
    /\ [][C23_Step]_vars

\* in batch 1 alice's counter is initialized by a submission of count 0,
\* bob's is not; the aggregates of batch 2, not yet opened, are not
C23_Witness ==
    /\ storage.currentBatchId = 1
    /\ isInitialized(storage.encryptedPlayerDrawCounts[1]["alice"])
    /\ contributed[1]["alice"] = 0
    /\ ~isInitialized(storage.encryptedPlayerDrawCounts[1]["bob"])
    /\ ~isInitialized(storage.encryptedDrawCount[2])

---------------------------------------------------------------------------
(* C24: the gates of the callback are evaluated in strict order and the    *)
(* first failing gate decides the error: ReplayDetected, then              *)
(* NotInitialized, then StateMismatch, then InvalidProof; so a bad proof   *)
(* on a processed request reports ReplayDetected and a bad proof on a      *)
(* drifted state reports StateMismatch.                                    *)

\* the conditions the four gates test, each by itself
AlreadyProcessed(r) == storage.decryptionContexts[r].processed

AggregateMissing(r) ==
    \/ ~isInitialized(storage.encryptedTotalPrizePool[storage.decryptionContexts[r].batchId])
    \/ ~isInitialized(storage.encryptedDrawCount[storage.decryptionContexts[r].batchId])

HashDiffers(r) ==
    _hashCiphertexts(ciphertexts(storage, storage.decryptionContexts[r].batchId))
        # storage.decryptionContexts[r].stateHash

FirstFailingGate(r, pl) ==
    IF AlreadyProcessed(r) THEN "ReplayDetected"
    ELSE IF AggregateMissing(r) THEN "NotInitialized"
    ELSE IF HashDiffers(r) THEN "StateMismatch"
    ELSE IF ~checkSignatures(r, pl[1], pl[2]) THEN "InvalidProof"
    ELSE "ok"

C24_GateOrder ==
    \A r \in RequestIds :
        \A pl \in GatePayloads(r) :
            LET gate == FirstFailingGate(r, pl) IN
            \A a \in Callers : myCallback(storage, a, r, pl[1], pl[2]).err = gate

\* request 0 is processed and request 1 has drifted; under a forged proof
\* the first reports ReplayDetected and the second StateMismatch
C24_Witness ==
    /\ Issued = {0, 1}
    /\ AlreadyProcessed(0) /\ ~AlreadyProcessed(1) /\ HashDiffers(1)
    /\ \A r \in {0, 1} :
           ~checkSignatures(r, GenuineProof(r).cleartexts,
                            ForgedProof(r, GenuineProof(r).cleartexts))
    /\ myCallback(storage, "bob", 0, GenuineProof(0).cleartexts,
                  ForgedProof(0, GenuineProof(0).cleartexts)).err = "ReplayDetected"
    /\ myCallback(storage, "bob", 1, GenuineProof(1).cleartexts,
                  ForgedProof(1, GenuineProof(1).cleartexts)).err = "StateMismatch"

---------------------------------------------------------------------------
(* C25: a callback that fails with InvalidProof leaves its context         *)
(* unprocessed and emits nothing, and does not consume the request: a      *)
(* later callback for the same request id with a valid proof, the state    *)
(* being unchanged, succeeds and marks it processed.                       *)

C25_InvalidProofKeepsRequest ==
    \A r \in RequestIds :
        \A pl \in GatePayloads(r), a \in Callers :
            LET cb == myCallback(storage, a, r, pl[1], pl[2]) IN
            cb.err = "InvalidProof" =>
                /\ r \in Pending
                /\ cb.st = storage /\ cb.ev = <<>>
                /\ ~cb.st.decryptionContexts[r].processed
                /\ \A b \in Callers :
                       LET again == OracleCallback(cb.st, b, r) IN
                       /\ again.err = "ok"
                       /\ again.st = Completed(storage, r)
                       /\ again.ev # <<>>

\* a pending request for which altered cleartexts are refused with
\* InvalidProof while the oracle's own answer would be accepted
C25_Witness ==
    /\ 0 \in Pending /\ storage.paused
    /\ myCallback(storage, Deployer, 0, Altered(GenuineProof(0).cleartexts),
                  GenuineProof(0)).err = "InvalidProof"
    /\ OracleCallback(storage, Deployer, 0).err = "ok"

---------------------------------------------------------------------------
(* C26: through the contract's functions alone, the state hash stored in a *)
(* decryption context always equals the hash recomputed from the current   *)
(* handles of its batch; so StateMismatch is unreachable and every         *)
(* unprocessed request stays fulfillable by a callback with a valid proof. *)

C26_HashStaysCurrent ==
    /\ \A r \in StoredContexts :
           /\ ~HashDiffers(r)
           /\ ciphertexts(storage, storage.decryptionContexts[r].batchId)
                  = oracleRequests[r]
    /\ \A r \in RequestIds :
           \A pl \in GatePayloads(r), a \in Callers :
               myCallback(storage, a, r, pl[1], pl[2]).err # "StateMismatch"
    /\ \A r \in Pending, a \in Callers : OracleCallback(storage, a, r).err = "ok"

\* a request for batch 1 is still pending after time has passed and batch
\* 2 has been opened, and its hash is still current
C26_Witness ==
    /\ 0 \in Pending /\ storage.decryptionContexts[0].batchId = 1
    /\ now > storage.lastDecryptionRequestTime[Deployer]
    /\ storage.lastDecryptionRequestTime[Deployer] > 0
    /\ storage.currentBatchId = 2
    /\ ~HashDiffers(0)

---------------------------------------------------------------------------
(* C27: a callback for a request id never issued by requestBatchDecryption *)
(* never succeeds: it reads the default context (batch id 0, whose         *)
(* aggregates are never initialized), fails with NotInitialized, marks     *)
(* nothing processed and emits nothing, whatever its cleartexts and proof. *)

C27_UnissuedNeverSucceeds ==
    /\ ~isInitialized(storage.encryptedTotalPrizePool[0])
    /\ ~isInitialized(storage.encryptedDrawCount[0])
    /\ \A r \in RequestIds \ Issued :
           /\ storage.decryptionContexts[r] = NoContext
           /\ \A a \in Callers, pl \in ProbePayloads :
                  LET cb == myCallback(storage, a, r, pl[1], pl[2]) IN
                  /\ cb.err = "NotInitialized"
                  /\ cb.ev = <<>>
                  /\ cb.st.decryptionContexts = storage.decryptionContexts

\* request 0 was issued and completed; the oracle's answer to it presented
\* for request id 1, never issued, is refused
C27_Witness ==
    /\ Issued = {0} /\ AlreadyProcessed(0)
    /\ myCallback(storage, "bob", 1, GenuineProof(0).cleartexts,
                  GenuineProof(0)).err = "NotInitialized"

---------------------------------------------------------------------------
(* C28: a request can only target currentBatchId, so once batch N + 1 is   *)
(* open no new context can be created for batch N; a batch left without a  *)
(* request, or whose requests are never fulfilled, can never be revealed   *)
(* afterwards.                                                             *)

ContextsOf(s, b) ==
    {r \in RequestIds :
        s.decryptionContexts[r] # NoContext /\ s.decryptionContexts[r].batchId = b}

RevealsOf(s, b) == {r \in ContextsOf(s, b) : s.decryptionContexts[r].processed}

C28_Inv ==
    \A a \in Callers :
        LET q == Request(a) IN
        q.err = "ok" =>
            /\ q.st.decryptionContexts[counterRequest].batchId = storage.currentBatchId
            /\ \A b \in BatchIds \ {storage.currentBatchId} :
                   ContextsOf(q.st, b) = ContextsOf(storage, b)

C28_Step ==
    /\ storage'.currentBatchId >= storage.currentBatchId
    /\ \/ storage'.decryptionContexts = storage.decryptionContexts
       \/ \A b \in BatchIds :
              /\ b # storage.currentBatchId =>
                     ContextsOf(storage', b) = ContextsOf(storage, b)
              /\ RevealsOf(storage', b) \subseteq ContextsOf(storage, b)

C28_OnlyCurrentBatch == []C28_Inv /\ [][C28_Step]_vars

\* batch 1 was left without a request and batch 2 has one
C28_Witness ==
    /\ storage.currentBatchId = 2
    /\ ContextsOf(storage, 1) = {}
    /\ ContextsOf(storage, 2) # {}
    /\ \E a \in Submitters : contributed[1][a] > 0

---------------------------------------------------------------------------
(* C29: the prize pool is never accumulated into: encryptedTotalPrizePool  *)
(* of a batch is written by openBatch only, seeded to an encrypted zero,   *)
(* so its plaintext is 0 for every opened batch and the prize-pool total   *)
(* in the DecryptionCompleted event of an honest reveal is always 0.       *)

KeepsPrizePool(r) == r.st.encryptedTotalPrizePool = storage.encryptedTotalPrizePool

C29_Inv ==
    /\ \A b \in BatchIds :
           Opened(b) =>
               /\ storage.encryptedTotalPrizePool[b] = asEuint32(0)
               /\ Decrypt(storage.encryptedTotalPrizePool[b]) = 0
    /\ \A a \in Callers :
           /\ KeepsPrizePool(closeBatch(storage, a))
           /\ KeepsPrizePool(Request(a))
           /\ \A c \in DrawCounts : KeepsPrizePool(submitGachaDraw(storage, a, c, now))
           /\ \A r \in Pending :
                  LET cb == OracleCallback(storage, a, r) IN
                  /\ KeepsPrizePool(cb)
                  /\ cb.err = "ok"
                  /\ cb.ev[1].name = "DecryptionCompleted"
                  /\ cb.ev[1].args[3] = 0

C29_Step ==
    storage'.encryptedTotalPrizePool # storage.encryptedTotalPrizePool =>
        \E a \in Callers :
            /\ openBatch(storage, a).err = "ok"
            /\ storage' = openBatch(storage, a).st

C29_PrizePoolAlwaysZero == []C29_Inv /\ [][C29_Step]_vars

\* batch 1 took submissions with a non-zero total and its reveal was
\* completed; the prize pool behind it decrypts to 0
C29_Witness ==
    /\ AlreadyProcessed(0) /\ storage.decryptionContexts[0].batchId = 1
    /\ Decrypt(storage.encryptedDrawCount[1]) > 0
    /\ Decrypt(storage.encryptedTotalPrizePool[1]) = 0
    /\ GenuineProof(0).cleartexts[1] = 0

====
